---------------------------- MODULE Spec2Model ----------------------------
(***************************************************************************)
(* Multi-signal contact verification engine: the email validator           *)
(* (email_validator.py), the web evidence gatherer (web_utils.py), the AI  *)
(* judge with its quota breaker (openai_verification.py) and the per-field *)
(* orchestrator (data_verification.py).                                    *)
(*                                                                         *)
(* Text is a sequence of one-character strings, so that formatting,        *)
(* lower-casing, splitting, containment and length are computed.  A Python *)
(* value is a record [t |-> type, s |-> text].  Each external source       *)
(* (DNS, HTTP, search, deliverability API, AI completion) answers with an  *)
(* outcome chosen afresh at every call.                                    *)
(***************************************************************************)
EXTENDS Integers, Sequences, FiniteSets, TLC

VARIABLES
    validation_cache,   \* email_validator.validation_cache : value -> verdict
    dns_cache,          \* email_validator.dns_cache : domain text -> BOOLEAN
    web_cache,          \* web_utils.web_cache : key text -> evidence text
    ai_cache,           \* openai_verification.ai_cache : key -> status
    ai_quota_exceeded,  \* openai_verification.ai_quota_exceeded
    ai_error_message,   \* openai_verification.ai_error_message
    OPENAI_API_KEY,     \* TRUE iff the AI credential is non-empty (read once at import)
    run,                \* the verify_data call in progress, or NoRun
    batch,              \* the field list and flags of the batch being processed
    last,               \* the most recent call: arguments, result, external calls issued
    hist,               \* what each top-level call returned earlier in the session
    ncalls              \* number of top-level calls made so far in the session

vars == <<validation_cache, dns_cache, web_cache, ai_cache, ai_quota_exceeded,
          ai_error_message, OPENAI_API_KEY, run, batch, last, hist, ncalls>>

-----------------------------------------------------------------------------
(* Bounds of the model *)

\* top-level calls per session, one bound per specification
MaxEmailCalls == 3
MaxWebCalls == 2
MaxAICalls == 3
MaxVerifierCalls == 2
\* records of one batch handed to verify_data
MaxRuns == 2
MaxScriptRuns == 2

-----------------------------------------------------------------------------
(* Text and Python values *)

Status == {"Valid", "Uncertain", "Invalid"}

UpperSeq == <<"A","B","C","D","E","F","G","H","I","J","K","L","M",
              "N","O","P","Q","R","S","T","U","V","W","X","Y","Z">>
LowerSeq == <<"a","b","c","d","e","f","g","h","i","j","k","l","m",
              "n","o","p","q","r","s","t","u","v","w","x","y","z">>
DigitSeq == <<"0","1","2","3","4","5","6","7","8","9">>

Range(f) == {f[i] : i \in DOMAIN f}

UpperSet == Range(UpperSeq)

LowerOf == [c \in UpperSet |-> LowerSeq[CHOOSE i \in DOMAIN UpperSeq : UpperSeq[i] = c]]

\* str.lower(), one character
LowerChar(c) == IF c \in UpperSet THEN LowerOf[c] ELSE c

\* str.lower()
LowerStr(s) == [i \in DOMAIN s |-> LowerChar(s[i])]

\* needle in haystack (Python substring test; the empty text is in every text)
Contains(hay, needle) ==
    \E i \in 0..(Len(hay) - Len(needle)) :
        \A j \in 1..Len(needle) : hay[i + j] = needle[j]

\* an assignment that drops the other entries of the dict
Put_Forgetful(f, k, v) == [x \in {k} |-> v]

\* f[k] = v
Put(f, k, v) == [x \in (DOMAIN f) \cup {k} |-> IF x = k THEN v ELSE f[x]]

EmptyMap == [x \in {} |-> "Uncertain"]

Str(s) == [t |-> "str", s |-> s]
PyNone == [t |-> "NoneType", s |-> <<"N","o","n","e">>]
PyNaN  == [t |-> "float", s |-> <<"n","a","n">>]
PyInt(digits) == [t |-> "int", s |-> digits]
PyList(repr) == [t |-> "list", s |-> repr]

\* bool(v)
Truthy(v) ==
    CASE v.t = "str" -> v.s # <<>>
      [] v.t = "NoneType" -> FALSE
      [] v.t = "float" -> TRUE
      [] v.t = "int" -> v.s # <<"0">>
      [] v.t = "list" -> v.s # <<"[","]">>

\* hash(v) is defined (a dict lookup or store with an unhashable key raises TypeError)
Hashable(v) == v.t # "list"

\* pandas.isna(v) for a scalar
IsNa(v) == v.t = "NoneType" \/ (v.t = "float" /\ v.s = <<"n","a","n">>)

\* f"{v}"
Format(v) == v.s

-----------------------------------------------------------------------------
(* email_validator.py *)

LocalChars  == Range(UpperSeq) \cup Range(LowerSeq) \cup Range(DigitSeq)
                 \cup {".", "_", "%", "+", "-"}
DomainChars == Range(UpperSeq) \cup Range(LowerSeq) \cup Range(DigitSeq) \cup {".", "-"}
Letters     == Range(UpperSeq) \cup Range(LowerSeq)

\* re.match(r'^[a-zA-Z0-9._%+-]+@[a-zA-Z0-9.-]+\.[a-zA-Z]{2,}$', s) on the text s
\* with no trailing newline: at = index of '@', dot = index of the '.' before the
\* top-level label
MatchesPatternExact(s) ==
    \E at \in 2..Len(s), dot \in 1..Len(s) :
        /\ s[at] = "@"
        /\ \A i \in 1..(at - 1) : s[i] \in LocalChars
        /\ dot >= at + 2
        /\ s[dot] = "."
        /\ \A i \in (at + 1)..(dot - 1) : s[i] \in DomainChars
        /\ Len(s) - dot >= 2
        /\ \A i \in (dot + 1)..Len(s) : s[i] \in Letters

\* '$' also matches just before one trailing newline
MatchesPattern(s) ==
    \/ MatchesPatternExact(s)
    \/ /\ Len(s) >= 1
       /\ s[Len(s)] = "\n"
       /\ MatchesPatternExact(SubSeq(s, 1, Len(s) - 1))

is_valid_email_syntax(email) ==
    IF ~Truthy(email) \/ email.t # "str"
    THEN FALSE
    ELSE MatchesPattern(email.s)

\* email.split('@')[-1]
DomainOf(s) ==
    IF \E i \in 1..Len(s) : s[i] = "@"
    THEN LET at == CHOOSE i \in 1..Len(s) :
                      s[i] = "@" /\ \A j \in (i + 1)..Len(s) : s[j] # "@"
         IN  SubSeq(s, at + 1, Len(s))
    ELSE s

disposable_domains == {
      <<"t","e","m","p","-","m","a","i","l",".","o","r","g">>,
      <<"t","e","m","p","m","a","i","l",".","c","o","m">>,
      <<"t","h","r","o","w","a","w","a","y","m","a","i","l",".","c","o","m">>,
      <<"m","a","i","l","i","n","a","t","o","r",".","c","o","m">>,
      <<"y","o","p","m","a","i","l",".","c","o","m">>,
      <<"g","u","e","r","r","i","l","l","a","m","a","i","l",".","c","o","m">>,
      <<"s","h","a","r","k","l","a","s","e","r","s",".","c","o","m">>,
      <<"1","0","m","i","n","u","t","e","m","a","i","l",".","c","o","m">>,
      <<"t","r","a","s","h","m","a","i","l",".","c","o","m">>,
      <<"m","a","i","l","n","e","s","i","a",".","c","o","m">>,
      <<"m","a","i","l","d","r","o","p",".","c","c">>,
      <<"g","e","t","a","i","r","m","a","i","l",".","c","o","m">>,
      <<"g","e","t","n","a","d","a",".","c","o","m">>,
      <<"e","m","a","i","l","o","n","d","e","c","k",".","c","o","m">>,
      <<"s","p","a","m","g","o","u","r","m","e","t",".","c","o","m">>,
      <<"f","a","k","e","i","n","b","o","x",".","c","o","m">>,
      <<"t","e","m","p","i","n","b","o","x",".","c","o","m">>,
      <<"t","e","m","p","-","m","a","i","l",".","r","u">>,
      <<"d","i","s","p","o","s","t","a","b","l","e",".","c","o","m">> }

\* the membership test without lower-casing
is_disposable_domain_CaseSensitive(domain) == domain \in disposable_domains

is_disposable_domain(domain) == LowerStr(domain) \in disposable_domains

\* an external request: which, for what, and whether it was answered
Ext(call, arg, ok) == [call |-> call, arg |-> arg, ok |-> ok]

\* The timeout= argument, in seconds, that the source passes to each kind of
\* external request, 0 where it passes none: requests.head(url, timeout=5) in
\* verify_company_domain; requests.get(url, timeout=10) in scrape_company_website,
\* search_using_serpapi and search_using_duckduckgo; none for requests.get(url)
\* of the deliverability API, dns.resolver.resolve, trafilatura.fetch_url and
\* openai.chat.completions.create.
ExplicitTimeout(call) ==
    CASE call = "head" -> 5
      [] call \in {"site_get", "serpapi", "duckduckgo"} -> 10
      [] call \in {"abstract_api", "dns_mx", "dns_a", "fetch_url", "openai"} -> 0

\* verify_domain_mx that does not remember a domain that failed to resolve
verify_domain_mx_ForgetFailure(domain, dc) ==
    IF domain \in DOMAIN dc
    THEN {[ret |-> dc[domain], dc |-> dc, ext |-> <<>>]}
    ELSE {[ret |-> TRUE, dc |-> Put(dc, domain, TRUE),
           ext |-> <<Ext("dns_mx", domain, TRUE)>>],
          [ret |-> TRUE, dc |-> Put(dc, domain, TRUE),
           ext |-> <<Ext("dns_mx", domain, FALSE), Ext("dns_a", domain, TRUE)>>],
          [ret |-> FALSE, dc |-> dc,
           ext |-> <<Ext("dns_mx", domain, FALSE), Ext("dns_a", domain, FALSE)>>]}

\* The possible results of verify_domain_mx(domain) with dns_cache = dc: the MX
\* lookup answers, or it raises and the A lookup answers, or both raise.
verify_domain_mx(domain, dc) ==
    IF domain \in DOMAIN dc
    THEN {[ret |-> dc[domain], dc |-> dc, ext |-> <<>>]}
    ELSE {[ret |-> TRUE, dc |-> Put(dc, domain, TRUE),
           ext |-> <<Ext("dns_mx", domain, TRUE)>>],
          [ret |-> TRUE, dc |-> Put(dc, domain, TRUE),
           ext |-> <<Ext("dns_mx", domain, FALSE), Ext("dns_a", domain, TRUE)>>],
          [ret |-> FALSE, dc |-> Put(dc, domain, FALSE),
           ext |-> <<Ext("dns_mx", domain, FALSE), Ext("dns_a", domain, FALSE)>>]}

\* answers of the deliverability API: a 200 response with the deliverability field
\* (three values), a 200 response without the field, another status, an exception
ApiOutcomes == {"DELIVERABLE", "UNDELIVERABLE", "RISKY", "no_field", "http_500", "exception"}

\* the deliverability step with every answer but UNDELIVERABLE taken as deliverable
DeliverabilityVerdict_Lenient(api) ==
    CASE api = "UNDELIVERABLE" -> "Invalid"
      [] OTHER -> "Valid"

\* lines 50-72 of validate_email: the verdict of the deliverability step
DeliverabilityVerdict(api) ==
    CASE api = "DELIVERABLE" -> "Valid"
      [] api = "UNDELIVERABLE" -> "Invalid"
      [] OTHER -> "Uncertain"

\* validation_cache[email] = verdict, skipped for a neutral verdict
CacheVerdict_SkipUncertain(vc, email, verdict) ==
    IF verdict = "Uncertain" THEN vc ELSE Put(vc, email, verdict)

\* validation_cache[email] = verdict
CacheVerdict(vc, email, verdict) == Put(vc, email, verdict)

\* has_mx is "skipped" when verify_domain_mx was not reached
EmailResult(ret, raised, vc, dc, ext, has_mx) ==
    [ret |-> ret, raised |-> raised, vc |-> vc, dc |-> dc, ext |-> ext,
     has_mx |-> has_mx]

\* validate_email from line 31 on with the disposable-domain test made first
ValidateResolved_DisposableFirst(email, vc, domain, mx) ==
    IF is_disposable_domain(domain)
    THEN {EmailResult("Invalid", "none", CacheVerdict(vc, email, "Invalid"),
                      mx.dc, mx.ext, IF mx.ret THEN "yes" ELSE "no")}
    ELSE IF ~mx.ret
    THEN {EmailResult("Uncertain", "none", CacheVerdict(vc, email, "Uncertain"),
                      mx.dc, mx.ext, "no")}
    ELSE {EmailResult("Valid", "none", CacheVerdict(vc, email, "Valid"),
                      mx.dc, mx.ext, "yes")}

\* validate_email from line 31 on, given the result mx of verify_domain_mx:
\* ABSTRACT_API_KEY is read from the environment at each call (set or not)
ValidateResolved(email, vc, domain, mx) ==
    IF ~mx.ret
    THEN {EmailResult("Uncertain", "none", CacheVerdict(vc, email, "Uncertain"),
                      mx.dc, mx.ext, "no")}
    ELSE IF is_disposable_domain(domain)
    THEN {EmailResult("Invalid", "none", CacheVerdict(vc, email, "Invalid"),
                      mx.dc, mx.ext, "yes")}
    ELSE {[ret |-> DeliverabilityVerdict(api), raised |-> "none",
           vc |-> CacheVerdict(vc, email, DeliverabilityVerdict(api)), dc |-> mx.dc,
           ext |-> mx.ext \o <<Ext("abstract_api", email.s,
                                   api \notin {"http_500", "exception"})>>,
           has_mx |-> "yes", api |-> api] : api \in ApiOutcomes}
         \cup
         {EmailResult("Valid", "none", CacheVerdict(vc, email, "Valid"),
                      mx.dc, mx.ext, "yes")}

\* The possible results of validate_email(email) with validation_cache = vc and
\* dns_cache = dc.
validate_email(email, vc, dc) ==
    IF ~Hashable(email)
    THEN {EmailResult("none", "TypeError", vc, dc, <<>>, "skipped")}
    ELSE IF email \in DOMAIN vc
    THEN {EmailResult(vc[email], "none", vc, dc, <<>>, "skipped")}
    ELSE IF ~is_valid_email_syntax(email)
    THEN {EmailResult("Invalid", "none", CacheVerdict(vc, email, "Invalid"), dc,
                      <<>>, "skipped")}
    ELSE UNION {ValidateResolved(email, vc, DomainOf(email.s), mx) :
                    mx \in verify_domain_mx(DomainOf(email.s), dc)}

-----------------------------------------------------------------------------
(* web_utils.py *)

\* n characters of text that contains no name, place or industry
Pad(n) == [i \in 1..n |-> "#"]

\* readable text of a company site, and the snippets of a search
SiteText    == <<"A","l"," ","B","o"," ","-"," ","R","o","m","e">>
SearchShort == <<"A","c","m","e"," ","1"," ","M","a","i","n"," ","S","t"," ","R","o","m","e",
                 " ","0","0","1","8","4"," ","T","e","c","h">>
SearchTexts == {SearchShort, Pad(100), Pad(101)}

WebResult(ret, raised, wc, ext) == [ret |-> ret, raised |-> raised, wc |-> wc, ext |-> ext]

\* The possible results [ret, ext] of scrape_company_website(domain), domain a
\* string: the download fails or raises; it succeeds and text is extracted; nothing
\* is extracted and the page is fetched again and parsed, or that fetch raises.
scrape_company_website(domain) ==
    IF ~Truthy(domain)
    THEN {[ret |-> <<>>, ext |-> <<>>]}
    ELSE {[ret |-> <<>>, ext |-> <<Ext("fetch_url", domain.s, FALSE)>>],
          [ret |-> SiteText, ext |-> <<Ext("fetch_url", domain.s, TRUE)>>],
          [ret |-> SiteText, ext |-> <<Ext("fetch_url", domain.s, TRUE),
                                       Ext("site_get", domain.s, TRUE)>>],
          [ret |-> <<>>, ext |-> <<Ext("fetch_url", domain.s, TRUE),
                                   Ext("site_get", domain.s, FALSE)>>]}

\* search_using_serpapi / search_using_duckduckgo: the request raises (caught,
\* ""), or answers with no result (""), or with results formatted into text
SearchAnswers(provider, query) ==
    {[ret |-> <<>>, ext |-> <<Ext(provider, query, FALSE)>>],
     [ret |-> <<>>, ext |-> <<Ext(provider, query, TRUE)>>]}
    \cup {[ret |-> t, ext |-> <<Ext(provider, query, TRUE)>>] : t \in SearchTexts}

\* The possible results [ret, ext] of search_for_company(company_name): SERPAPI_KEY
\* is read at each call; urllib.parse.quote raises on a non-string, inside the try
\* of search_using_serpapi; search_using_duckduckgo formats the name first.
search_for_company(company_name) ==
    (IF company_name.t = "str"
     THEN SearchAnswers("serpapi", Format(company_name))
     ELSE {[ret |-> <<>>, ext |-> <<>>]})
    \cup SearchAnswers("duckduckgo", Format(company_name))

\* f"{company_name}_{domain}"
WebCacheKey_Unseparated(company_name, domain) == Format(company_name) \o Format(domain)

WebCacheKey(company_name, domain) == Format(company_name) \o <<"_">> \o Format(domain)

\* lines 29-35: the site text and the requests made for it
SiteStep(company_name, domain) ==
    IF Truthy(domain) /\ LowerStr(company_name.s) # LowerStr(domain.s)
    THEN scrape_company_website(domain)
    ELSE {[ret |-> <<>>, ext |-> <<>>]}

\* lines 26-41: combined_info
Combine(site, search) ==
    (IF site # <<>> THEN site \o <<"\n", "\n">> ELSE <<>>) \o search

\* web_cache[cache_key] = combined_info, skipped when nothing was found
StoreEvidence_SkipEmpty(wc, key, text) == IF text = <<>> THEN wc ELSE Put(wc, key, text)

\* web_cache[cache_key] = combined_info, left out
StoreEvidence_Never(wc, key, text) == wc

\* web_cache[cache_key] = combined_info
StoreEvidence(wc, key, text) == Put(wc, key, text)

\* The possible results of get_company_info_from_web(company_name, domain) with
\* web_cache = wc.  Line 29 calls .lower() on both arguments once domain is truthy:
\* a non-string raises AttributeError, outside any try.
get_company_info_from_web(company_name, domain, wc) ==
    IF ~Truthy(company_name)
    THEN {WebResult(<<>>, "none", wc, <<>>)}
    ELSE IF WebCacheKey(company_name, domain) \in DOMAIN wc
    THEN {WebResult(wc[WebCacheKey(company_name, domain)], "none", wc, <<>>)}
    ELSE IF Truthy(domain) /\ (company_name.t # "str" \/ domain.t # "str")
    THEN {WebResult(<<>>, "AttributeError", wc, <<>>)}
    ELSE {WebResult(Combine(site.ret, search.ret), "none",
                    StoreEvidence(wc, WebCacheKey(company_name, domain),
                                  Combine(site.ret, search.ret)),
                    site.ext \o search.ext) :
              site \in SiteStep(company_name, domain),
              search \in search_for_company(company_name)}

-----------------------------------------------------------------------------
(* openai_verification.py *)

\* a record (row) is an ordered mapping: a sequence of <<column name, value>>
Has(row, name) == \E i \in DOMAIN row : row[i][1] = name

Get(row, name) == row[CHOOSE i \in DOMAIN row : row[i][1] = name][2]

\* json.dumps of one value (default=str)
JsonValue(v) ==
    CASE v.t = "str" -> <<"\"">> \o v.s \o <<"\"">>
      [] v.t = "NoneType" -> <<"n","u","l","l">>
      [] v.t = "float" -> <<"N","a","N">>
      [] OTHER -> v.s

RECURSIVE JsonItems(_, _)
JsonItems(row, i) ==
    IF i > Len(row) THEN <<>>
    ELSE (IF i > 1 THEN <<",", " ">> ELSE <<>>)
         \o <<"\"">> \o row[i][1] \o <<"\"", ":", " ">> \o JsonValue(row[i][2])
         \o JsonItems(row, i + 1)

\* json.dumps(row_data, default=str): every entry of the row, in order
JsonDumps(row) == <<"{">> \o JsonItems(row, 1) \o <<"}">>

AlphabetSeq == UpperSeq \o LowerSeq \o DigitSeq \o
    <<" ", "\"", ":", ",", "{", "}", "_", ".", "@", "-", "#", "/", "\n", "[", "]", "'">>

AlphabetSet == Range(AlphabetSeq)

CodeOf == [c \in AlphabetSet |-> CHOOSE i \in DOMAIN AlphabetSeq : AlphabetSeq[i] = c]

Code(c) == IF c \in AlphabetSet THEN CodeOf[c] ELSE 0

\* hash() of a text is some integer fixed by the text for the life of the process;
\* here a position-weighted checksum in a range that keeps the texts of the model
\* apart
HashMod == 1000003

HashTerm(text, i) == (Code(text[i]) + 1) * ((((i * i * 31) + (7 * i)) % 997) + 1)

RECURSIVE HashRange(_, _, _)
HashRange(text, lo, hi) ==
    IF lo > hi THEN 0
    ELSE IF lo = hi THEN HashTerm(text, lo)
    ELSE (HashRange(text, lo, (lo + hi) \div 2)
          + HashRange(text, (lo + hi) \div 2 + 1, hi)) % HashMod

Hash(text) == HashRange(text, 1, Len(text))

\* str(n) for n >= 0
RECURSIVE IntToText(_)
IntToText(n) ==
    IF n < 10 THEN <<DigitSeq[n + 1]>>
    ELSE IntToText(n \div 10) \o <<DigitSeq[(n % 10) + 1]>>

BoolText(b) == IF b THEN <<"T","r","u","e">> ELSE <<"F","a","l","s","e">>

\* f"{field_name}:{field_value}:{hash(json.dumps(row_data, default=str))}:{use_deep_search}"
AiCacheKey(field_name, field_value, row_data, use_deep_search) ==
    field_name \o <<":">> \o Format(field_value) \o <<":">>
        \o IntToText(Hash(JsonDumps(row_data))) \o <<":">> \o BoolText(use_deep_search)

\* ai_error_message: which message, and the error text it quotes
Msg(kind, detail) == [kind |-> kind, detail |-> detail]

ErrQuota        == <<"Y","o","u"," ","e","x","c","e","e","d","e","d"," ","y","o","u","r",
                     " ","c","u","r","r","e","n","t"," ","q","u","o","t","a">>
ErrInsufficient == <<"I","n","s","u","f","f","i","c","i","e","n","t"," ","b","a","l",
                     "a","n","c","e">>
ErrApiKey       == <<"I","n","c","o","r","r","e","c","t"," ","A","P","I"," ","k","e","y",
                     " ","p","r","o","v","i","d","e","d">>
ErrTimeout      == <<"C","o","n","n","e","c","t","i","o","n"," ","t","i","m","e","d",
                     " ","o","u","t">>
ErrJson         == <<"E","x","p","e","c","t","i","n","g"," ","v","a","l","u","e">>

\* str(e) of an exception raised by the completion request
AiErrors == {ErrQuota, ErrInsufficient, ErrApiKey, ErrTimeout}

\* the 'status' of a parsed response: a recognised verdict, some other string, or
\* no 'status' entry at all
AiStatuses == {"Valid", "Uncertain", "Invalid", "Maybe", "absent"}

\* the tests of lines 143-152 without the test for a credential error
ErrorClass_QuotaOnly(error_msg) ==
    LET lower == LowerStr(error_msg)
    IN  IF \/ Contains(lower, <<"q","u","o","t","a">>)
           \/ Contains(lower, <<"i","n","s","u","f","f","i","c","i","e","n","t">>)
        THEN "quota"
        ELSE "transient"

\* the tests of lines 52-59 and 143-152 on error_msg.lower()
ErrorClass(error_msg) ==
    LET lower == LowerStr(error_msg)
    IN  IF \/ Contains(lower, <<"q","u","o","t","a">>)
           \/ Contains(lower, <<"i","n","s","u","f","f","i","c","i","e","n","t">>)
        THEN "quota"
        ELSE IF \/ Contains(lower, <<"a","p","i"," ","k","e","y">>)
                \/ Contains(lower, <<"a","p","i","k","e","y">>)
        THEN "invalid_key"
        ELSE "transient"

\* the except branch, were every error to trip the breaker
AfterError_TripAlways(quota, error_msg) ==
    LET class == ErrorClass(error_msg)
    IN  [quota |-> TRUE,
         msg |-> IF class = "transient" THEN Msg("transient", error_msg)
                 ELSE Msg(class, <<>>),
         class |-> class]

\* the except branch: the breaker and the message after an error
AfterError(quota, error_msg) ==
    LET class == ErrorClass(error_msg)
    IN  [quota |-> IF class \in {"quota", "invalid_key"} THEN TRUE ELSE quota,
         msg |-> IF class = "transient" THEN Msg("transient", error_msg)
                 ELSE Msg(class, <<>>),
         class |-> class]

\* the test of line 79 without the credential
ShortCircuit_QuotaOnly(key, quota) == quota

\* the test of line 79 without the breaker
ShortCircuit_KeyOnly(key, quota) == ~key

\* line 79: not OPENAI_API_KEY or ai_quota_exceeded
ShortCircuit(key, quota) == ~key \/ quota

\* result.get('status', 'Uncertain')
StatusOf(status) == IF status = "absent" THEN "Uncertain" ELSE status

ModelName(use_deep_search) ==
    IF use_deep_search THEN <<"g","p","t","-","4">>
    ELSE <<"g","p","t","-","3",".","5","-","t","u","r","b","o">>

AiResult(ret, cache, quota, msg, ext, err) ==
    [ret |-> ret, cache |-> cache, quota |-> quota, msg |-> msg, ext |-> ext, err |-> err]

\* lines 137-154: the result of a call whose try block raised with text error_msg
AiFailure(S, error_msg, ext) ==
    LET after == AfterError(S.quota, error_msg)
    IN  [ret |-> "Uncertain", cache |-> S.cache, quota |-> after.quota,
         msg |-> after.msg, ext |-> ext, err |-> after.class, text |-> error_msg]

\* lines 48-61: the result of a probe that raised with text error_msg
ProbeFailure(S, error_msg) ==
    LET after == AfterError(S.quota, error_msg)
    IN  [ret |-> FALSE, quota |-> after.quota, msg |-> after.msg,
         ext |-> <<Ext("openai", ModelName(FALSE), FALSE)>>, err |-> after.class]

\* The possible results of verify_contact_with_ai(field_name, field_value, row_data,
\* use_deep_search) in the state S = [key, cache, quota, msg]: the request raises
\* with some error text; or it answers and the content does not parse; or it parses.
verify_contact_with_ai(field_name, field_value, row_data, use_deep_search, S) ==
    LET k == AiCacheKey(field_name, field_value, row_data, use_deep_search)
        m == ModelName(use_deep_search)
    IN  IF ShortCircuit(S.key, S.quota)
        THEN {AiResult("Uncertain", S.cache, S.quota, S.msg, <<>>, "none")}
        ELSE IF k \in DOMAIN S.cache
        THEN {AiResult(S.cache[k], S.cache, S.quota, S.msg, <<>>, "none")}
        ELSE {[ret |-> StatusOf(st), cache |-> Put(S.cache, k, StatusOf(st)),
               quota |-> S.quota, msg |-> S.msg, ext |-> <<Ext("openai", m, TRUE)>>,
               err |-> "none", status |-> st] : st \in AiStatuses}
             \cup
             {AiFailure(S, e, <<Ext("openai", m, FALSE)>>) : e \in AiErrors}
             \cup
             {AiFailure(S, ErrJson, <<Ext("openai", m, TRUE)>>)}

\* check_api_status with the breaker cleared by a probe that succeeds
check_api_status_Resetting(S) ==
    IF ~S.key
    THEN {[ret |-> FALSE, quota |-> S.quota, msg |-> Msg("no_key", <<>>), ext |-> <<>>,
           err |-> "none"]}
    ELSE {[ret |-> TRUE, quota |-> FALSE, msg |-> S.msg,
           ext |-> <<Ext("openai", ModelName(FALSE), TRUE)>>, err |-> "none"]}
         \cup
         {ProbeFailure(S, e) : e \in AiErrors}

\* The possible results of check_api_status() in the state S.
\* check_api_status without the early return of lines 33-34
check_api_status_Reprobing(S) ==
    IF ~S.key
    THEN {[ret |-> FALSE, quota |-> S.quota, msg |-> Msg("no_key", <<>>), ext |-> <<>>,
           err |-> "none"]}
    ELSE {[ret |-> TRUE, quota |-> S.quota, msg |-> S.msg,
           ext |-> <<Ext("openai", ModelName(FALSE), TRUE)>>, err |-> "none"]}
         \cup
         {ProbeFailure(S, e) : e \in AiErrors}

check_api_status(S) ==
    IF ~S.key
    THEN {[ret |-> FALSE, quota |-> S.quota, msg |-> Msg("no_key", <<>>), ext |-> <<>>,
           err |-> "none"]}
    ELSE IF S.quota
    THEN {[ret |-> FALSE, quota |-> S.quota, msg |-> S.msg, ext |-> <<>>, err |-> "none"]}
    ELSE {[ret |-> TRUE, quota |-> S.quota, msg |-> S.msg,
           ext |-> <<Ext("openai", ModelName(FALSE), TRUE)>>, err |-> "none"]}
         \cup
         {ProbeFailure(S, e) : e \in AiErrors}

-----------------------------------------------------------------------------
(* data_verification.py: column names *)

ColEmail       == <<"E","m","a","i","l">>
ColFirstName   == <<"F","i","r","s","t"," ","N","a","m","e">>
ColLastName    == <<"L","a","s","t"," ","N","a","m","e">>
ColCompany     == <<"C","o","m","p","a","n","y">>
ColCompanyName == <<"C","o","m","p","a","n","y"," ","N","a","m","e">>
ColDomain      == <<"C","o","m","p","a","n","y"," ","D","o","m","a","i","n">>
ColAddress     == <<"C","o","m","p","a","n","y"," ","A","d","d","r","e","s","s">>
ColCity        == <<"C","o","m","p","a","n","y"," ","C","i","t","y">>
ColState       == <<"C","o","m","p","a","n","y"," ","S","t","a","t","e">>
ColCountry     == <<"C","o","m","p","a","n","y"," ","C","o","u","n","t","r","y">>
ColPostal      == <<"C","o","m","p","a","n","y"," ","P","o","s","t","a","l"," ","C","o","d","e">>
ColByd         == <<"B","Y","D","_","I","n","d","u","s","t","r","i","e","s">>
ColIndustry    == <<"C","o","m","p","a","n","y"," ","I","n","d","u","s","t","r","y">>
ColJobTitle    == <<"C","o","n","t","a","c","t"," ","J","o","b"," ","T","i","t","l","e">>
ColPhone       == <<"C","o","m","p","a","n","y"," ","P","h","o","n","e">>
\* status_col = f"{col}" : the verdict stored under the name of the field itself
StatusSuffix_None == <<>>

\* status_col = f"{col}_status"
StatusSuffix   == <<"_","s","t","a","t","u","s">>

-----------------------------------------------------------------------------
(* data_verification.py: the verifiers *)

\* len(company_info) > 100
SubstantialLen == 100

\* the threshold test with >= for >
ExistenceVerdict_AtLeast(company_info) ==
    IF Len(company_info) >= SubstantialLen THEN "Valid"
    ELSE IF Len(company_info) > 0 THEN "Uncertain"
    ELSE "Invalid"

\* lines 164-169 of verify_company_exists
ExistenceVerdict(company_info) ==
    IF Len(company_info) > SubstantialLen THEN "Valid"
    ELSE IF Len(company_info) > 0 THEN "Uncertain"
    ELSE "Invalid"

\* what a verifier was given by get_company_info_from_web: the text, or nothing
\* when the call raised
Info(g) == [got |-> g.raised = "none", text |-> g.ret]

\* The possible results of verify_company_exists(company, company_domain): an
\* exception of the gatherer is caught and gives 'Uncertain'.
verify_company_exists(company, company_domain, wc) ==
    {[ret |-> IF g.raised = "none" THEN ExistenceVerdict(g.ret) ELSE "Uncertain",
      wc |-> g.wc, ext |-> g.ext, info |-> Info(g)] :
         g \in get_company_info_from_web(company, company_domain, wc)}

\* what a verifier reports: its verdict, the module state afterwards, the external
\* requests made, the AI judge call made (if any), the exception it caught (if
\* any), the evidence it was given (if any)
FieldResult(ret, W, ext, ai, caught, info) ==
    [ret |-> ret, W |-> W, ext |-> ext, ai |-> ai, caught |-> caught, info |-> info]

NoAi == [called |-> FALSE]
NoInfo == [got |-> FALSE, text |-> <<>>]

\* a call of verify_contact_with_ai made by a verifier, with the breaker at entry
AiCall(field_name, r, W) ==
    [called |-> TRUE, field |-> field_name, ret |-> r.ret, ext |-> r.ext,
     tripped |-> W.quota]

\* the module state after an AI judge call
AfterAi(W, r) == [W EXCEPT !.cache = r.cache, !.quota = r.quota, !.msg = r.msg]

\* company and not pd.isna(company) and company != ''
Usable(company) == Truthy(company) /\ ~IsNa(company) /\ company # Str(<<>>)

\* f"{first_name} {last_name}".lower() in company_info.lower()
NameFound(first_name, last_name, company_info) ==
    Contains(LowerStr(company_info),
             LowerStr(Format(first_name) \o <<" ">> \o Format(last_name)))

\* The possible results of verify_name_against_company.
verify_name_against_company(first_name, last_name, company, company_domain, W) ==
    {FieldResult(IF g.raised # "none" THEN "Uncertain"
                 ELSE IF NameFound(first_name, last_name, g.ret) THEN "Valid"
                 ELSE "Uncertain",
                 [W EXCEPT !.wc = g.wc], g.ext, NoAi, g.raised, Info(g)) :
         g \in get_company_info_from_web(company, company_domain, W.wc)}

AlnumSet == Range(UpperSeq) \cup Range(LowerSeq) \cup Range(DigitSeq)

IsAlnum(c) == c \in AlnumSet

\* ''.join(e.lower() for e in text if e.isalnum())
Simplify(text) == LowerStr(SelectSeq(text, IsAlnum))

\* response.status_code < 400
ProbeOkBelow == 400

\* answers of requests.head(url, timeout=5): a status code, or an exception
ProbeOutcomes == {200, 399, 400, 503, -1}

\* lines 191-209 with the company and the domain compared as lower-cased text,
\* punctuation and spaces kept
ProbeVerdict_RawCompare(status, domain, company) ==
    IF status < ProbeOkBelow
    THEN IF Usable(company)
         THEN IF company.t # "str" THEN "Uncertain"
              ELSE IF Contains(LowerStr(domain.s), LowerStr(company.s)) THEN "Valid"
              ELSE "Uncertain"
         ELSE "Valid"
    ELSE "Uncertain"

\* lines 191-209 of verify_company_domain, for the status code of the probe;
\* iterating a company that is not a string raises TypeError (caught)
ProbeVerdict(status, domain, company) ==
    IF status < ProbeOkBelow
    THEN IF Usable(company)
         THEN IF company.t # "str" THEN "Uncertain"
              ELSE IF Contains(Simplify(domain.s), Simplify(company.s)) THEN "Valid"
              ELSE "Uncertain"
         ELSE "Valid"
    ELSE "Uncertain"

\* The possible results of verify_company_domain(domain, company); -1 stands for
\* an exception of the probe (connection error, timeout).  The answer of the probe
\* is reported with the result.
verify_company_domain(domain, company, W) ==
    IF ~Truthy(domain) \/ IsNa(domain) \/ domain = Str(<<>>)
    THEN {FieldResult("Uncertain", W, <<>>, NoAi, "none", NoInfo)}
    ELSE IF domain.t # "str"
    THEN {FieldResult("Uncertain", W, <<>>, NoAi, "TypeError", NoInfo)}
    ELSE IF "." \notin Range(domain.s) \/ " " \in Range(domain.s)
    THEN {FieldResult("Invalid", W, <<>>, NoAi, "none", NoInfo)}
    ELSE {IF status = -1
          THEN FieldResult("Uncertain", W, <<Ext("head", domain.s, FALSE)>>, NoAi,
                           "RequestException", [got |-> FALSE, text |-> <<>>, status |-> status])
          ELSE FieldResult(ProbeVerdict(status, domain, company), W,
                           <<Ext("head", domain.s, TRUE)>>, NoAi,
                           IF status < ProbeOkBelow /\ Usable(company)
                              /\ company.t # "str"
                           THEN "TypeError" ELSE "none",
                           [got |-> FALSE, text |-> <<>>, status |-> status]) :
              status \in ProbeOutcomes}

Whitespace == {" ", "\t", "\n"}

\* str.split(): the tokens are the maximal runs of non-whitespace characters
TokenStarts(text) ==
    {i \in 1..Len(text) :
        text[i] \notin Whitespace /\ (i = 1 \/ text[i - 1] \in Whitespace)}

TokenAt(text, i) ==
    SubSeq(text, i,
           CHOOSE j \in i..Len(text) :
               /\ \A k \in i..j : text[k] \notin Whitespace
               /\ (j = Len(text) \/ text[j + 1] \in Whitespace))

\* the comparison of line 230 with >= for >
AddressVerdict_HalfIsValid(component_value, company_info) ==
    LET parts == TokenStarts(Format(component_value))
        matches == Cardinality({i \in parts :
                       Contains(LowerStr(company_info),
                                TokenAt(LowerStr(Format(component_value)), i))})
    IN  IF 2 * matches >= Cardinality(parts) THEN "Valid"
        ELSE IF matches > 0 THEN "Uncertain"
        ELSE "Invalid"

\* lines 226-235: matches > len(address_parts) / 2
AddressVerdict(component_value, company_info) ==
    LET parts == TokenStarts(Format(component_value))
        matches == Cardinality({i \in parts :
                       Contains(LowerStr(company_info),
                                TokenAt(LowerStr(Format(component_value)), i))})
    IN  IF 2 * matches > Cardinality(parts) THEN "Valid"
        ELSE IF matches > 0 THEN "Uncertain"
        ELSE "Invalid"

\* the containment test answering "not found" whatever the evidence
Mentioned_Never(value, company_info) == FALSE

\* str(value).lower() in company_info.lower()
Mentioned(value, company_info) ==
    Contains(LowerStr(company_info), LowerStr(Format(value)))

\* the escalation made whether or not the AI judge is enabled
Escalate_Always(field_name, value, row_dict, use_ai, use_deep_search, W, ext, info) ==
    {FieldResult(r.ret, AfterAi(W, r), ext \o r.ext, AiCall(field_name, r, W),
                 "none", info) :
         r \in verify_contact_with_ai(field_name, value, row_dict, use_deep_search, W)}

\* the escalation of lines 243-248 and 278-289: the AI judge's answer is the verdict
Escalate(field_name, value, row_dict, use_ai, use_deep_search, W, ext, info) ==
    IF use_ai
    THEN {FieldResult(r.ret, AfterAi(W, r), ext \o r.ext, AiCall(field_name, r, W),
                      "none", info) :
              r \in verify_contact_with_ai(field_name, value, row_dict,
                                           use_deep_search, W)}
    ELSE {FieldResult("Uncertain", W, ext, NoAi, "none", info)}

\* lines 223-257, given the evidence g: a component type outside the five falls off
\* the end of the function, which returns None
ComponentVerdict(component_type, component_value, row_data, use_ai, use_deep_search, W, g) ==
    IF g.raised # "none"
    THEN {FieldResult("Uncertain", W, g.ext, NoAi, g.raised, Info(g))}
    ELSE IF component_type = ColAddress
    THEN {FieldResult(AddressVerdict(component_value, g.ret), W, g.ext, NoAi, "none",
                      Info(g))}
    ELSE IF component_type \in {ColCity, ColState, ColCountry}
    THEN IF Mentioned(component_value, g.ret)
         THEN {FieldResult("Valid", W, g.ext, NoAi, "none", Info(g))}
         ELSE Escalate(component_type, component_value, row_data, use_ai,
                       use_deep_search, W, g.ext, Info(g))
    ELSE IF component_type = ColPostal
    THEN {FieldResult(IF Contains(g.ret, Format(component_value))
                      THEN "Valid" ELSE "Uncertain",
                      W, g.ext, NoAi, "none", Info(g))}
    ELSE {FieldResult("None", W, g.ext, NoAi, "none", Info(g))}

\* The possible results of verify_address_component; evidence is gathered for the
\* company alone, without its domain.
verify_address_component(component_type, component_value, company, row_data, use_ai, use_deep_search, W) ==
    IF Usable(company)
    THEN UNION {ComponentVerdict(component_type, component_value, row_data, use_ai,
                                 use_deep_search, [W EXCEPT !.wc = g.wc], g) :
                    g \in get_company_info_from_web(company, PyNone, W.wc)}
    ELSE {FieldResult("Uncertain", W, <<>>, NoAi, "none", NoInfo)}

\* The possible results of verify_industry; the AI judge is asked about
\* "Company Industry" with a two-entry context.
verify_industry(industry, company, use_ai, use_deep_search, W) ==
    IF Usable(company)
    THEN UNION {IF g.raised # "none"
                THEN {FieldResult("Uncertain", W, g.ext, NoAi, g.raised, Info(g))}
                ELSE IF Mentioned(industry, g.ret)
                THEN {FieldResult("Valid", [W EXCEPT !.wc = g.wc], g.ext, NoAi, "none",
                                  Info(g))}
                ELSE Escalate(ColIndustry, industry,
                              << <<ColCompanyName, company>>, <<ColIndustry, industry>> >>,
                              use_ai, use_deep_search, [W EXCEPT !.wc = g.wc], g.ext,
                              Info(g)) :
                    g \in get_company_info_from_web(company, PyNone, W.wc)}
    ELSE {FieldResult("Uncertain", W, <<>>, NoAi, "none", NoInfo)}

-----------------------------------------------------------------------------
(* data_verification.py: verify_data *)

\* the text of a verdict, as stored in the verified record
StatusText ==
    [st \in {"Valid", "Uncertain", "Invalid", "Maybe", "None"} |->
        CASE st = "Valid" -> <<"V","a","l","i","d">>
          [] st = "Uncertain" -> <<"U","n","c","e","r","t","a","i","n">>
          [] st = "Invalid" -> <<"I","n","v","a","l","i","d">>
          [] st = "Maybe" -> <<"M","a","y","b","e">>
          [] st = "None" -> <<"N","o","n","e">>]

\* verified_row[name] = value
SetCol(row, name, value) ==
    IF Has(row, name)
    THEN [i \in DOMAIN row |-> IF row[i][1] = name THEN <<name, value>> ELSE row[i]]
    ELSE Append(row, <<name, value>>)

\* the first of "Company", "Company Name" that is a column holding a non-missing
\* value; None when there is none
CompanyOf(row) ==
    IF Has(row, ColCompany) /\ ~IsNa(Get(row, ColCompany)) THEN Get(row, ColCompany)
    ELSE IF Has(row, ColCompanyName) /\ ~IsNa(Get(row, ColCompanyName))
    THEN Get(row, ColCompanyName)
    ELSE PyNone

\* row["Company Domain"] if "Company Domain" in row_data.columns else None
DomainOfRow(row) == IF Has(row, ColDomain) THEN Get(row, ColDomain) ELSE PyNone

\* the test of line 30 with the comparison to '' left out
EmptyValue_NaOnly(v) == IsNa(v)

\* pd.isna(value) or value == ''
EmptyValue(v) == IsNa(v) \/ v = Str(<<>>)

\* lines 35-125: the branch for column col, whose value is not empty.  An exception
\* raised inside the branch is caught by the handler of line 127.
Dispatch(col, row, use_ai, use_deep_search, W) ==
    LET value == Get(row, col)
        company == CompanyOf(row)
    IN  IF col = ColEmail
        THEN {FieldResult(IF e.raised # "none" THEN "Uncertain" ELSE e.ret,
                          [W EXCEPT !.vc = e.vc, !.dc = e.dc], e.ext, NoAi, e.raised,
                          NoInfo) :
                  e \in validate_email(value, W.vc, W.dc)}
        ELSE IF col \in {ColFirstName, ColLastName}
        THEN IF ~Truthy(company)
             THEN {FieldResult("Uncertain", W, <<>>, NoAi, "none", NoInfo)}
             ELSE IF ~Has(row, ColFirstName) \/ ~Has(row, ColLastName)
             THEN {FieldResult("Uncertain", W, <<>>, NoAi, "KeyError", NoInfo)}
             ELSE verify_name_against_company(Get(row, ColFirstName),
                                              Get(row, ColLastName), company,
                                              DomainOfRow(row), W)
        ELSE IF col \in {ColCompany, ColCompanyName}
        THEN {FieldResult(r.ret, [W EXCEPT !.wc = r.wc], r.ext, NoAi,
                          IF r.info.got THEN "none" ELSE "AttributeError", r.info) :
                  r \in verify_company_exists(value, DomainOfRow(row), W.wc)}
        ELSE IF col = ColDomain
        THEN verify_company_domain(value, company, W)
        ELSE IF col \in {ColAddress, ColCity, ColState, ColCountry, ColPostal}
        THEN verify_address_component(col, value, company, row, use_ai,
                                      use_deep_search, W)
        ELSE IF col \in {ColByd, ColIndustry}
        THEN verify_industry(value, company, use_ai, use_deep_search, W)
        ELSE Escalate(col, value, row, use_ai, use_deep_search, W, <<>>, NoInfo)

\* One iteration of the loop of line 24: "raised" is the exception that leaves
\* verify_data, if any.  row_data.iloc[0][col] of line 30 is evaluated before the
\* try block is entered.
VerifyColumn(col, row, use_ai, use_deep_search, W) ==
    IF ~Has(row, col)
    THEN {[raised |-> "KeyError",
           res |-> FieldResult("Uncertain", W, <<>>, NoAi, "none", NoInfo)]}
    ELSE IF EmptyValue(Get(row, col))
    THEN {[raised |-> "none",
           res |-> FieldResult("Uncertain", W, <<>>, NoAi, "none", NoInfo)]}
    ELSE {[raised |-> "none", res |-> r] :
              r \in Dispatch(col, row, use_ai, use_deep_search, W)}

-----------------------------------------------------------------------------
(* Inputs *)

EmailPlain   == <<"a","@","b",".","c","o">>
EmailSameDom == <<"z","@","b",".","c","o">>
EmailDisp    == <<"x","@","y","o","p","m","a","i","l",".","c","o","m">>
EmailDispUp  == <<"x","@","Y","o","p","M","a","i","l",".","C","O","M">>
EmailNoAt    == <<"n","o","t","-","a","n","-","e","m","a","i","l">>
EmailShortTld == <<"a","@","b",".","c">>
EmailNewline == <<"a","@","b",".","c","o","\n">>

EmailInputs ==
    { Str(EmailPlain), Str(EmailSameDom), Str(EmailDisp), Str(EmailDispUp),
      Str(EmailNoAt), Str(EmailShortTld), Str(EmailNewline),
      PyInt(<<"4","2">>), PyNone, PyList(<<"[","'","a","@","b",".","c","o","'","]">>) }

Acme    == <<"A","c","m","e">>
AcmeUp  == <<"A","C","M","E">>
AcmeIo  == <<"a","c","m","e",".","i","o">>
NoneTxt == <<"N","o","n","e">>

\* (company_name, domain) arguments of get_company_info_from_web
WebInputs ==
    { <<Str(Acme), PyNone>>, <<Str(Acme), Str(NoneTxt)>>, <<Str(Acme), Str(AcmeIo)>>,
      <<Str(Acme), Str(AcmeUp)>>, <<Str(Acme), PyNaN>>, <<Str(Acme), Str(<<>>)>>,
      <<Str(<<>>), Str(AcmeIo)>>, <<PyNone, PyNone>>, <<PyNaN, PyNone>>,
      <<Str(<<"A","_","B">>), Str(<<"c">>)>>, <<Str(<<"A">>), Str(<<"B","_","c">>)>> }

\* (domain, company) arguments of verify_company_domain
DomainInputs ==
    {<<Str(AcmeIo), c>> : c \in {Str(<<"A"," ","c","m","e","!">>), Str(<<"B","o","l","t">>),
                                 Str(<<"-">>), PyNone, PyNaN, Str(<<>>), PyInt(<<"7">>)}}
        \cup {<<d, Str(Acme)>> : d \in {Str(<<"a","-","c",".","M","E">>), Str(Acme),
                                        Str(<<"a","c","m","e"," ",".","i","o">>),
                                        Str(<<"a","c","m","e","\t",".","i","o">>),
                                        PyNaN, Str(<<>>), PyInt(<<"7">>)}}

Ceo == <<"C","E","O">>
Cto == <<"C","T","O">>

RowAcme == << <<ColJobTitle, Str(Ceo)>>, <<ColCompanyName, Str(Acme)>> >>
RowBolt == << <<ColJobTitle, Str(Ceo)>>, <<ColCompanyName, Str(<<"B","o","l","t">>)>> >>
\* RowAcme after an earlier verification: a derived verdict entry is the only difference
RowAcmeVerified == RowAcme \o << <<ColJobTitle \o StatusSuffix, Str(<<"V","a","l","i","d">>)>> >>

\* (field_name, field_value, row_data, use_deep_search) arguments of verify_contact_with_ai
AiInputs ==
    { <<ColJobTitle, Str(Ceo), RowAcme, FALSE>>,
      <<ColJobTitle, Str(Ceo), RowAcme, TRUE>>,
      <<ColJobTitle, Str(Cto), RowAcme, FALSE>>,
      <<ColCompanyName, Str(Ceo), RowAcme, FALSE>>,
      <<ColJobTitle, Str(Ceo), RowBolt, FALSE>>,
      <<ColJobTitle, Str(Ceo), RowAcmeVerified, FALSE>> }

\* records handed to verify_data: a complete one; one whose every value is missing
\* or empty; one with both company columns, a domain that is no host name and a
\* numeric postal code; one with no company column, a numeric domain and the
\* 'Email_status' column of an earlier verification
RecFull ==
    << <<ColEmail, Str(EmailPlain)>>, <<ColFirstName, Str(<<"A","l">>)>>,
       <<ColLastName, Str(<<"B","o">>)>>, <<ColCompanyName, Str(Acme)>>,
       <<ColDomain, Str(AcmeIo)>>, <<ColAddress, Str(<<"1"," ","M","a","i","n"," ","S","t">>)>>,
       <<ColCity, Str(<<"R","o","m","e">>)>>, <<ColPostal, Str(<<"0","0","1","8","4">>)>>,
       <<ColIndustry, Str(<<"T","e","c","h">>)>>, <<ColJobTitle, Str(Ceo)>> >>

RecGaps ==
    << <<ColEmail, Str(<<>>)>>, <<ColFirstName, PyNaN>>, <<ColLastName, Str(<<>>)>>,
       <<ColCompany, PyNaN>>, <<ColCompanyName, Str(<<>>)>>, <<ColDomain, PyNaN>>,
       <<ColAddress, Str(<<>>)>>, <<ColCity, PyNone>>, <<ColPostal, PyNaN>>,
       <<ColIndustry, Str(<<>>)>>, <<ColJobTitle, PyNaN>> >>

RecBoth ==
    << <<ColEmail, Str(EmailDispUp)>>, <<ColFirstName, Str(<<"A","l">>)>>,
       <<ColCompany, Str(<<"B","o","l","t">>)>>, <<ColCompanyName, Str(Acme)>>,
       <<ColDomain, Str(<<"a","c","m","e"," ","c","o","m">>)>>, <<ColAddress, Str(<<"9"," ","M","a","i","n">>)>>,
       <<ColCity, Str(<<"O","s","l","o">>)>>, <<ColPostal, PyInt(<<"1","8","4">>)>>,
       <<ColIndustry, PyNaN>>, <<ColJobTitle, Str(Cto)>> >>

RecBare ==
    << <<ColEmail, Str(EmailNoAt)>>, <<ColFirstName, Str(<<"A","l">>)>>,
       <<ColLastName, Str(<<"B","o">>)>>, <<ColDomain, PyInt(<<"1","8","4">>)>>,
       <<ColCity, Str(<<"R","o","m","e">>)>>, <<ColJobTitle, Str(Ceo)>>,
       <<ColEmail \o StatusSuffix, Str(<<"V","a","l","i","d">>)>> >>

\* both names and a company, the domain cell left empty
RecNoDomain ==
    << <<ColFirstName, Str(<<"A","l">>)>>, <<ColLastName, Str(<<"B","o">>)>>,
       <<ColCompanyName, Str(Acme)>>, <<ColDomain, PyNaN>> >>

Records == {RecFull, RecGaps, RecBoth, RecBare, RecNoDomain}

\* the columns a caller may ask for; "Company Phone" is in none of the records
Columns ==
    {ColEmail, ColFirstName, ColLastName, ColCompany, ColCompanyName, ColDomain,
     ColAddress, ColCity, ColPostal, ColIndustry, ColJobTitle, ColPhone}

\* columns_to_verify: every single column, and pairs whose first field fails
ColumnLists ==
    {<<c>> : c \in Columns}
        \cup {<<ColDomain, ColEmail>>, <<ColPhone, ColEmail>>, <<ColLastName, ColCity>>,
              <<ColFirstName, ColLastName>>}

-----------------------------------------------------------------------------
(* State machine *)

NoRun == [active |-> FALSE]
NoCall == [op |-> "none"]
NoBatch == [started |-> FALSE]

Init ==
    /\ validation_cache = EmptyMap
    /\ dns_cache = EmptyMap
    /\ web_cache = EmptyMap
    /\ ai_cache = EmptyMap
    /\ ai_quota_exceeded = FALSE
    /\ ai_error_message = Msg("empty", <<>>)
    /\ OPENAI_API_KEY \in BOOLEAN
    /\ run = NoRun
    /\ batch = NoBatch
    /\ last = NoCall
    /\ hist = [email |-> EmptyMap, web |-> EmptyMap, ai |-> EmptyMap, ai_failed |-> FALSE,
               dns |-> EmptyMap]
    /\ ncalls = 0

Idle == ~run.active

\* what an earlier call with the same arguments returned, if there was one
Earlier(h, args) ==
    IF args \in DOMAIN h THEN [seen |-> TRUE, ret |-> h[args]]
    ELSE [seen |-> FALSE, ret |-> "none"]

\* a caller invokes validate_email(email)
ValidateEmail ==
    /\ Idle
    /\ \E email \in EmailInputs :
         \E r \in validate_email(email, validation_cache, dns_cache) :
             /\ validation_cache' = r.vc
             /\ dns_cache' = r.dc
             /\ last' = [op |-> "validate_email", email |-> email, ret |-> r.ret,
                         raised |-> r.raised, ext |-> r.ext, has_mx |-> r.has_mx,
                         api |-> IF "api" \in DOMAIN r THEN r.api ELSE "none",
                         prev |-> Earlier(hist.email, email),
                         dns_prev |-> IF is_valid_email_syntax(email)
                                      THEN Earlier(hist.dns, DomainOf(email.s))
                                      ELSE Earlier(EmptyMap, <<>>)]
             /\ hist' = IF r.raised = "none"
                        THEN [hist EXCEPT
                                !.email = Put(@, email, r.ret),
                                !.dns = IF "dns_mx" \in {r.ext[i].call : i \in DOMAIN r.ext}
                                        THEN Put(@, DomainOf(email.s), r.has_mx = "yes")
                                        ELSE @]
                        ELSE hist
    /\ ncalls' = ncalls + 1
    /\ UNCHANGED <<web_cache, ai_cache, ai_quota_exceeded, ai_error_message,
                   OPENAI_API_KEY, run, batch>>

NextEmail == ncalls < MaxEmailCalls /\ ValidateEmail

\* a caller invokes get_company_info_from_web(company_name, domain)
GetCompanyInfoFromWeb ==
    /\ Idle
    /\ \E args \in WebInputs :
         \E r \in get_company_info_from_web(args[1], args[2], web_cache) :
             /\ web_cache' = r.wc
             /\ last' = [op |-> "get_company_info_from_web", company |-> args[1],
                         domain |-> args[2], ret |-> r.ret, raised |-> r.raised,
                         ext |-> r.ext,
                         cached |-> WebCacheKey(args[1], args[2]) \in DOMAIN web_cache,
                         prev |-> Earlier(hist.web, args)]
             /\ hist' = IF r.raised = "none"
                        THEN [hist EXCEPT !.web = Put(@, args, r.ret)]
                        ELSE hist
    /\ ncalls' = ncalls + 1
    /\ UNCHANGED <<validation_cache, dns_cache, ai_cache, ai_quota_exceeded,
                   ai_error_message, OPENAI_API_KEY, run, batch>>

\* a caller invokes verify_company_exists(company, company_domain)
VerifyCompanyExists ==
    /\ Idle
    /\ \E args \in WebInputs :
         \E r \in verify_company_exists(args[1], args[2], web_cache) :
             /\ web_cache' = r.wc
             /\ last' = [op |-> "verify_company_exists", company |-> args[1],
                         domain |-> args[2], ret |-> r.ret, raised |-> "none",
                         ext |-> r.ext, info |-> r.info]
             /\ hist' = IF r.info.got
                        THEN [hist EXCEPT !.web = Put(@, args, r.info.text)]
                        ELSE hist
    /\ ncalls' = ncalls + 1
    /\ UNCHANGED <<validation_cache, dns_cache, ai_cache, ai_quota_exceeded,
                   ai_error_message, OPENAI_API_KEY, run, batch>>

NextWeb == ncalls < MaxWebCalls /\ GetCompanyInfoFromWeb

AiState == [key |-> OPENAI_API_KEY, cache |-> ai_cache, quota |-> ai_quota_exceeded,
            msg |-> ai_error_message]

\* a quota or credential failure has been reported by an AI request
Failed(err) == err \in {"quota", "invalid_key"}

\* a caller invokes verify_contact_with_ai(field_name, field_value, row_data, deep)
\* the entries of a record context that are not derived '<field>_status' verdicts
Underived(row) ==
    LET Derived(c) == /\ Len(c) >= 7
                      /\ SubSeq(c, Len(c) - 6, Len(c)) = <<"_","s","t","a","t","u","s">>
        Pick[i \in 0..Len(row)] ==
            IF i = 0 THEN <<>>
            ELSE IF Derived(row[i][1]) THEN Pick[i - 1] ELSE Append(Pick[i - 1], row[i])
    IN Pick[Len(row)]

\* two argument tuples name the same request: same field, value, deep flag and
\* the same record context up to derived verdict entries
SameRequest(x, y) ==
    /\ x[1] = y[1]
    /\ x[2] = y[2]
    /\ x[4] = y[4]
    /\ Underived(x[3]) = Underived(y[3])

VerifyContactWithAI ==
    /\ Idle
    /\ \E args \in AiInputs :
         \E r \in verify_contact_with_ai(args[1], args[2], args[3], args[4], AiState) :
             /\ ai_cache' = r.cache
             /\ ai_quota_exceeded' = r.quota
             /\ ai_error_message' = r.msg
             /\ last' = [op |-> "verify_contact_with_ai", args |-> args, ret |-> r.ret,
                         raised |-> "none", ext |-> r.ext, err |-> r.err,
                         text |-> IF r.err = "none" THEN <<>> ELSE r.text,
                         status |-> IF "status" \in DOMAIN r THEN r.status ELSE "none",
                         tripped |-> ai_quota_exceeded,
                         failed_before |-> hist.ai_failed,
                         cached |-> AiCacheKey(args[1], args[2], args[3], args[4])
                                        \in DOMAIN ai_cache,
                         prev |-> Earlier(hist.ai, args),
                         retry |-> /\ last.op = "verify_contact_with_ai"
                                   /\ last.err = "transient"
                                   /\ last.args = args,
                         like |-> {hist.ai[a] : a \in {x \in DOMAIN hist.ai :
                                                         SameRequest(x, args)}}]
             /\ hist' = [hist EXCEPT
                           !.ai = IF r.cache # ai_cache \/ args \in DOMAIN @
                                  THEN Put(@, args, r.ret) ELSE @,
                           !.ai_failed = @ \/ Failed(r.err)]
    /\ ncalls' = ncalls + 1
    /\ UNCHANGED <<validation_cache, dns_cache, web_cache, OPENAI_API_KEY, run, batch>>

\* a caller invokes check_api_status()
CheckApiStatus ==
    /\ Idle
    /\ \E r \in check_api_status(AiState) :
         /\ ai_quota_exceeded' = r.quota
         /\ ai_error_message' = r.msg
         /\ last' = [op |-> "check_api_status", ret |-> r.ret, raised |-> "none",
                     ext |-> r.ext, err |-> r.err, tripped |-> ai_quota_exceeded,
                     failed_before |-> hist.ai_failed]
         /\ hist' = [hist EXCEPT !.ai_failed = @ \/ Failed(r.err)]
    /\ ncalls' = ncalls + 1
    /\ UNCHANGED <<validation_cache, dns_cache, web_cache, ai_cache, OPENAI_API_KEY, run, batch>>

NextAI == ncalls < MaxAICalls /\ (VerifyContactWithAI \/ CheckApiStatus)

SpecAI == Init /\ [][NextAI]_vars

\* the module state the verifiers read and write
World ==
    [vc |-> validation_cache, dc |-> dns_cache, wc |-> web_cache,
     key |-> OPENAI_API_KEY, cache |-> ai_cache, quota |-> ai_quota_exceeded,
     msg |-> ai_error_message]

\* the batch loop hands one record to verify_data(row_data, columns_to_verify,
\* use_ai, use_deep_search); the field list and the flags are those of the batch.
\* line 21: the verified record starts as a copy of the input.
VerifyDataCall ==
    /\ Idle
    /\ ncalls < MaxRuns
    /\ \E row \in Records, cols \in ColumnLists, use_ai \in BOOLEAN, deep \in BOOLEAN :
         /\ batch.started =>
                (cols = batch.cols /\ use_ai = batch.use_ai /\ deep = batch.deep)
         /\ run' = [active |-> TRUE, row |-> row, cols |-> cols, use_ai |-> use_ai,
                    deep |-> deep, i |-> 1, verified |-> row]
         /\ batch' = [started |-> TRUE, cols |-> cols, use_ai |-> use_ai,
                      deep |-> deep]
    /\ last' = [op |-> "verify_data_call"]
    /\ ncalls' = ncalls + 1
    /\ UNCHANGED <<validation_cache, dns_cache, web_cache, ai_cache, ai_quota_exceeded,
                   ai_error_message, OPENAI_API_KEY, hist>>

\* one iteration of the loop over columns_to_verify (lines 24-130); an exception
\* that leaves the loop ends the call without a result
VerifyField ==
    /\ run.active
    /\ run.i <= Len(run.cols)
    /\ LET col == run.cols[run.i] IN
       \E o \in VerifyColumn(col, run.row, run.use_ai, run.deep, World) :
         /\ validation_cache' = o.res.W.vc
         /\ dns_cache' = o.res.W.dc
         /\ web_cache' = o.res.W.wc
         /\ ai_cache' = o.res.W.cache
         /\ ai_quota_exceeded' = o.res.W.quota
         /\ ai_error_message' = o.res.W.msg
         /\ run' = IF o.raised # "none" THEN NoRun
                   ELSE [run EXCEPT !.i = @ + 1,
                                    !.verified = SetCol(@, col \o StatusSuffix,
                                                        Str(StatusText[o.res.ret]))]
         /\ last' = [op |-> "verify_field", col |-> col, i |-> run.i,
                     present |-> Has(run.row, col), row |-> run.row,
                     company |-> CompanyOf(run.row),
                     value |-> IF Has(run.row, col) THEN Get(run.row, col) ELSE PyNone,
                     raised |-> o.raised, ret |-> o.res.ret, ext |-> o.res.ext,
                     ai |-> o.res.ai, caught |-> o.res.caught, info |-> o.res.info,
                     remaining |-> Len(run.cols) - run.i]
    /\ UNCHANGED <<OPENAI_API_KEY, batch, hist, ncalls>>

\* lines 132-135: the pause, then the verified record is returned
VerifyDataReturn ==
    /\ run.active
    /\ run.i > Len(run.cols)
    /\ run' = NoRun
    /\ last' = [op |-> "verify_data", raised |-> "none", ret |-> run.verified,
                row |-> run.row, cols |-> run.cols]
    /\ UNCHANGED <<validation_cache, dns_cache, web_cache, ai_cache, ai_quota_exceeded,
                   ai_error_message, OPENAI_API_KEY, batch, hist, ncalls>>

Next == VerifyDataCall \/ VerifyField \/ VerifyDataReturn

Spec == Init /\ [][Next]_vars

\* a caller invokes verify_company_domain(domain, company)
VerifyCompanyDomain ==
    /\ Idle
    /\ \E args \in DomainInputs :
         \E r \in verify_company_domain(args[1], args[2], World) :
             last' = [op |-> "verify_company_domain", domain |-> args[1],
                      company |-> args[2], ret |-> r.ret, raised |-> "none",
                      ext |-> r.ext, caught |-> r.caught, info |-> r.info]
    /\ ncalls' = ncalls + 1
    /\ UNCHANGED <<validation_cache, dns_cache, web_cache, ai_cache, ai_quota_exceeded,
                   ai_error_message, OPENAI_API_KEY, run, batch, hist>>

NextVerifiers == ncalls < MaxVerifierCalls /\ (VerifyCompanyExists \/ VerifyCompanyDomain)

SpecVerifiers == Init /\ [][NextVerifiers]_vars

SpecWeb == Init /\ [][NextWeb]_vars

SpecEmail == Init /\ [][NextEmail]_vars

\* ---------------------------------------------------------------------------
\* The driver (app.py).  The script is executed from its first line at every
\* interaction with the page; openai_verification stays loaded, so its globals
\* outlive a script run.

\* columns_to_verify of the driver, cut down to one field settled without the AI
\* judge and one settled by it
columns_to_verify == <<ColEmail, ColJobTitle>>

\* One execution of the script up to the batch loop.  Line 7 binds the driver's
\* own name ai_error_message to the value the module global has at that moment;
\* line 161 then calls check_api_status(), whose assignments rebind the module
\* global only, and lines 162-168 test the driver's name.  The button reads True
\* only in the run that follows a page drawn with the same settings.
ScriptRun ==
    /\ Idle
    /\ (IF batch.started THEN batch.runs ELSE 0) < MaxScriptRuns
    /\ \E requested \in BOOLEAN, wanted_deep \in BOOLEAN, verify_button \in BOOLEAN :
         LET imported == ai_error_message
             Gate(api_status) == imported.kind # "empty" /\ ~api_status
             Flags(api_status) ==
                 [started |-> TRUE, cols |-> columns_to_verify,
                  requested |-> requested, wanted_deep |-> wanted_deep,
                  verify_button |-> verify_button, api_status |-> api_status,
                  use_ai |-> requested /\ ~Gate(api_status),
                  deep |-> requested /\ ~Gate(api_status) /\ wanted_deep,
                  runs |-> (IF batch.started THEN batch.runs ELSE 0) + 1]
         IN  /\ verify_button => /\ batch.started
                                 /\ batch.requested = requested
                                 /\ batch.wanted_deep = wanted_deep
             /\ IF requested
                THEN \E r \in check_api_status(AiState) :
                        /\ ai_quota_exceeded' = r.quota
                        /\ ai_error_message' = r.msg
                        /\ batch' = Flags(r.ret)
                        /\ last' = [op |-> "script_run", ret |-> r.ret, ext |-> r.ext,
                                    err |-> r.err, imported |-> imported]
                        /\ hist' = [hist EXCEPT !.ai_failed = @ \/ Failed(r.err)]
                ELSE /\ batch' = Flags(TRUE)
                     /\ last' = [op |-> "script_run", ret |-> TRUE, ext |-> <<>>,
                                 err |-> "none", imported |-> imported]
                     /\ UNCHANGED <<ai_quota_exceeded, ai_error_message, hist>>
    /\ UNCHANGED <<validation_cache, dns_cache, web_cache, ai_cache, OPENAI_API_KEY,
                   run, ncalls>>

\* lines 194-209: the batch loop hands a row of the uploaded table, which has
\* every column of columns_to_verify (line 129), to verify_data with the flags
\* left by lines 159-171
BatchRow ==
    /\ Idle
    /\ batch.started
    /\ batch.verify_button
    /\ ncalls < MaxRuns
    /\ \E row \in {r \in Records : \A c \in Range(batch.cols) : Has(r, c)} :
         run' = [active |-> TRUE, row |-> row, cols |-> batch.cols,
                 use_ai |-> batch.use_ai, deep |-> batch.deep, i |-> 1,
                 verified |-> row]
    /\ last' = [op |-> "verify_data_call"]
    /\ ncalls' = ncalls + 1
    /\ UNCHANGED <<validation_cache, dns_cache, web_cache, ai_cache, ai_quota_exceeded,
                   ai_error_message, OPENAI_API_KEY, batch, hist>>

NextApp == ScriptRun \/ BatchRow \/ VerifyField \/ VerifyDataReturn

SpecApp == Init /\ [][NextApp]_vars

-----------------------------------------------------------------------------
(* Properties of the email validator (under SpecEmail) *)

ExtCalls(ext) == {ext[i].call : i \in DOMAIN ext}

LastIsEmail == last.op = "validate_email"

\* C6: every value that fails the syntax check, non-strings included, gets
\* 'Invalid' from validate_email, with no exception, no DNS lookup and no
\* deliverability-API call.
C6_SyntaxFailureIsInvalid ==
    (LastIsEmail /\ ~is_valid_email_syntax(last.email))
        => (last.raised = "none" /\ last.ret = "Invalid" /\ last.ext = <<>>)

\* C7: a syntactically valid address whose lower-cased domain is in the disposable
\* set never gets 'Valid', gets 'Invalid' whenever the resolution step found the
\* domain resolvable, and never causes a deliverability-API call.
C7_DisposableNeverValid ==
    (/\ LastIsEmail
     /\ is_valid_email_syntax(last.email)
     /\ LowerStr(DomainOf(last.email.s)) \in disposable_domains)
        => /\ last.ret \in {"Invalid", "Uncertain"}
           /\ (last.has_mx = "yes" => last.ret = "Invalid")
           /\ (last.has_mx = "no" => last.ret = "Uncertain")
           /\ "abstract_api" \notin ExtCalls(last.ext)

\* a mixed-case disposable domain resolved by the A-record fallback
C7_Witness ==
    /\ LastIsEmail
    /\ last.email = Str(EmailDispUp)
    /\ last.ext = <<Ext("dns_mx", DomainOf(EmailDispUp), FALSE),
                    Ext("dns_a", DomainOf(EmailDispUp), TRUE)>>
    /\ last.has_mx = "yes"
    /\ last.ret = "Invalid"

\* C9: once validate_email(e) has returned v for a string e, a later
\* validate_email(e) returns v and issues no DNS lookup and no API call.
C9_EmailMemoized ==
    (LastIsEmail /\ last.email.t = "str" /\ last.prev.seen)
        => (last.raised = "none" /\ last.ret = last.prev.ret /\ last.ext = <<>>)

\* a second call on an address whose first call found the domain unresolvable
C9_Witness ==
    /\ LastIsEmail
    /\ last.email = Str(EmailPlain)
    /\ last.prev = [seen |-> TRUE, ret |-> "Uncertain"]
    /\ last.ret = "Uncertain"
    /\ last.ext = <<>>

-----------------------------------------------------------------------------
(* Properties of the web evidence gatherer (under SpecWeb, SpecVerifiers) *)

LastIsGather == last.op = "get_company_info_from_web"

\* C8: for a non-empty company, once get_company_info_from_web(company, domain)
\* has returned, a later call with the identical pair returns the same text and
\* issues no scrape and no search request.
C8_WebCacheIdempotent ==
    (LastIsGather /\ Truthy(last.company) /\ last.prev.seen)
        => (last.raised = "none" /\ last.ret = last.prev.ret /\ last.ext = <<>>)

\* a repeated lookup of a pair whose first lookup found nothing at all
C8_Witness ==
    /\ LastIsGather
    /\ last.company = Str(Acme)
    /\ last.domain = Str(AcmeIo)
    /\ last.prev.seen
    /\ last.prev.ret = <<>>
    /\ last.ret = <<>>
    /\ last.ext = <<>>

\* C10: for a non-empty company, verify_company_exists returns 'Valid' when the
\* gathered evidence is longer than 100 characters, 'Uncertain' when its length
\* is 1..100, and 'Invalid' when it is empty.
C10_ExistenceByLength ==
    (last.op = "verify_company_exists" /\ Truthy(last.company) /\ last.info.got)
        => /\ Len(last.info.text) > 100 => last.ret = "Valid"
           /\ Len(last.info.text) \in 1..100 => last.ret = "Uncertain"
           /\ Len(last.info.text) = 0 => last.ret = "Invalid"

\* evidence of exactly 100 characters is not yet substantial
C10_Witness ==
    /\ last.op = "verify_company_exists"
    /\ last.company = Str(Acme)
    /\ last.info.got
    /\ Len(last.info.text) = 100
    /\ last.ret = "Uncertain"

LastIsDomain == last.op = "verify_company_domain"

\* the domain passes the format test of line 182
WellFormed(domain) ==
    domain.t = "str" /\ "." \in Range(domain.s) /\ " " \notin Range(domain.s)

\* C11: for a well-formed domain and a company that is text or not available,
\* verify_company_domain returns 'Valid' when the probe answers with a status
\* below 400 and either no company is available or the company's lower-cased
\* alphanumeric form is a substring of the domain's; it returns 'Uncertain' when
\* the probe succeeds without such a match, and when the probe raises or answers
\* with a status of 400 or more.
C11_DomainCompanyMatch ==
    (/\ LastIsDomain
     /\ WellFormed(last.domain)
     /\ (last.company.t = "str" \/ IsNa(last.company)))
        => LET reached == last.info.status # -1 /\ last.info.status < 400
               available == ~IsNa(last.company) /\ last.company.s # <<>>
               match == Contains(Simplify(last.domain.s), Simplify(last.company.s))
           IN  /\ last.ext = <<Ext("head", last.domain.s, last.info.status # -1)>>
               /\ last.ret = IF reached /\ (~available \/ match) THEN "Valid"
                             ELSE "Uncertain"

\* a company matching the domain only after punctuation and spaces are dropped
C11_Witness ==
    /\ LastIsDomain
    /\ last.domain = Str(AcmeIo)
    /\ last.company = Str(<<"A"," ","c","m","e","!">>)
    /\ last.info.status = 399
    /\ last.ret = "Valid"

-----------------------------------------------------------------------------
(* Properties of the AI judge (under SpecAI) *)

LastIsAi == last.op = "verify_contact_with_ai"

\* C2: once an AI request has failed with a quota or credential error, every later
\* verify_contact_with_ai call returns 'Uncertain' and issues no external call,
\* whatever its arguments, also for a key that was cached before the failure.
C2_BreakerPersistence ==
    (LastIsAi /\ last.failed_before) => (last.ret = "Uncertain" /\ last.ext = <<>>)

\* a key cached as 'Valid' before the breaker tripped is answered 'Uncertain' after
C2_Witness ==
    /\ LastIsAi
    /\ last.failed_before
    /\ last.cached
    /\ last.prev = [seen |-> TRUE, ret |-> "Valid"]
    /\ last.ret = "Uncertain"
    /\ last.ext = <<>>

\* C3: the breaker is false at process start and, once true, it is true in every
\* later state, under every sequence of verify_contact_with_ai and
\* check_api_status calls and outcomes.
C3_BreakerLatch ==
    /\ ~ai_quota_exceeded
    /\ [][ai_quota_exceeded => ai_quota_exceeded']_vars

\* a call made while the breaker is tripped leaves it tripped
C3_Witness ==
    /\ last.op \in {"verify_contact_with_ai", "check_api_status"}
    /\ last.tripped
    /\ ai_quota_exceeded

-----------------------------------------------------------------------------
(* Properties of verify_data (under Spec) *)

LastIsField == last.op = "verify_field"

\* the verdict stored for the field of the last iteration
Written == Get(run.verified, last.col \o StatusSuffix)

\* C1: every '<field>_status' value written by verify_data is exactly one of
\* 'Valid', 'Uncertain', 'Invalid', whatever the record, the field list, the flags
\* and the answers of the external sources (an AI answer with any 'status' included).
C1_Closure ==
    (LastIsField /\ last.raised = "none")
        => (last.ret \in Status /\ Written \in {Str(StatusText[st]) : st \in Status})

\* C4: a requested field whose value in the record is missing (NaN, None) or the
\* empty string gets the verdict 'Uncertain', and no DNS, HTTP, search,
\* deliverability-API or AI call is made on its behalf.
C4_EmptyValueRule ==
    (LastIsField /\ last.present /\ (IsNa(last.value) \/ last.value = Str(<<>>)))
        => /\ last.raised = "none"
           /\ last.ret = "Uncertain"
           /\ Written = Str(StatusText["Uncertain"])
           /\ last.ext = <<>>
           /\ ~last.ai.called

\* an empty email address is not handed to the email validator
C4_Witness ==
    /\ LastIsField
    /\ last.col = ColEmail
    /\ last.value = Str(<<>>)
    /\ last.ret = "Uncertain"
    /\ last.ext = <<>>
    /\ Written = Str(StatusText["Uncertain"])

\* C5: verify_data never raises; a field whose verification failed (an exception
\* in a verifier, or a requested field that is no column of the record) gets
\* 'Uncertain', and the fields after it still get their verdicts.
C5_FailureIsolation ==
    LastIsField
        => /\ last.raised = "none"
           /\ (~last.present \/ last.caught # "none") => last.ret = "Uncertain"

LastIsReturn == last.op = "verify_data"

\* the name of the entry that holds the verdict of a field
StatusName(col) == col \o <<"_","s","t","a","t","u","s">>

\* the returned record holds every field of the input record with its value, and
\* besides these exactly one '<field>_status' entry for each requested field
Extends(ret, row, cols) ==
    /\ \A i \in DOMAIN row : Has(ret, row[i][1]) /\ Get(ret, row[i][1]) = row[i][2]
    /\ \A i \in DOMAIN cols : Has(ret, StatusName(cols[i]))
    /\ Len(ret) = Len(row) + Cardinality(Range(cols))
    /\ \A i, j \in DOMAIN ret : ret[i][1] = ret[j][1] => i = j

\* C12 as stated: verify_data returns a record that contains every field of the
\* input record with its original value, plus exactly one '<field>_status' entry
\* for each requested field; the input record is not modified and no original
\* value is replaced by a verdict.
C12_RecordOutput ==
    LastIsReturn => (last.row \in Records /\ Extends(last.ret, last.row, last.cols))

\* C12 amended: the same, for an input record that has no field named
\* '<field>_status' for a requested field.
C12_RecordOutputFresh ==
    (LastIsReturn /\ \A i \in DOMAIN last.cols : ~Has(last.row, StatusName(last.cols[i])))
        => (last.row \in Records /\ Extends(last.ret, last.row, last.cols))

\* two requested fields of the complete record, two entries added
C12_Witness ==
    /\ LastIsReturn
    /\ last.row = RecFull
    /\ last.cols = <<ColDomain, ColEmail>>
    /\ Len(last.ret) = Len(RecFull) + 2
    /\ Get(last.ret, ColEmail) = Str(EmailPlain)
    /\ Get(last.ret, StatusName(ColEmail)) = Str(StatusText["Valid"])

\* every external request of the last operation failed, and there was one
AllFailed(ext) == ext # <<>> /\ \A i \in DOMAIN ext : ~ext[i].ok

\* C13: when the site scrape and the search both fail, so that no evidence could
\* be fetched, the company and the address fields do not get 'Invalid': they
\* degrade to 'Uncertain'.
C13_ResolutionFailureIsUncertain ==
    (/\ LastIsField
     /\ last.col \in {ColCompany, ColCompanyName, ColAddress}
     /\ AllFailed(last.ext))
        => last.ret = "Uncertain"

\* the error text carries a quota, insufficient-balance or credential signature
Signature(text) ==
    LET lower == LowerStr(text)
    IN  \/ Contains(lower, <<"q","u","o","t","a">>)
        \/ Contains(lower, <<"i","n","s","u","f","f","i","c","i","e","n","t">>)
        \/ Contains(lower, <<"a","p","i"," ","k","e","y">>)
        \/ Contains(lower, <<"a","p","i","k","e","y">>)

\* C14: a verify_contact_with_ai call whose AI request failed returns 'Uncertain';
\* the breaker is tripped and a breaker message is set exactly when the error text
\* carries a quota, insufficient-balance or credential signature; for any other
\* failure the breaker stays untripped and the transient-error message, quoting
\* the error text, is set.  The failed call caches nothing.
C14_FailureClassification ==
    (LastIsAi /\ last.err # "none")
        => /\ last.ret = "Uncertain"
           /\ ~last.tripped
           /\ ai_quota_exceeded <=> Signature(last.text)
           /\ Signature(last.text) => ai_error_message.kind \in {"quota", "invalid_key"}
           /\ ~Signature(last.text) => ai_error_message = Msg("transient", last.text)
           /\ ~last.cached /\ AiCacheKey(last.args[1], last.args[2], last.args[3],
                                          last.args[4]) \notin DOMAIN ai_cache

\* a timeout of the request: no trip, transient message
C14_Witness ==
    /\ LastIsAi
    /\ last.text = ErrTimeout
    /\ last.ret = "Uncertain"
    /\ ~ai_quota_exceeded
    /\ ai_error_message = Msg("transient", ErrTimeout)

\* C15: when the AI request succeeds and the 'status' of the response is absent or
\* is not one of 'Valid', 'Uncertain', 'Invalid', verify_contact_with_ai returns
\* 'Uncertain' and caches 'Uncertain' for the key.
C15_StatusParsing ==
    (LastIsAi /\ last.status # "none" /\ last.status \notin Status)
        => /\ last.ret = "Uncertain"
           /\ ai_cache[AiCacheKey(last.args[1], last.args[2], last.args[3],
                                  last.args[4])] = "Uncertain"

\* C16: with no AI credential configured, every verify_contact_with_ai call returns
\* 'Uncertain' and check_api_status returns False, both without an external
\* request, and the breaker is never tripped.
C16_NoCredential ==
    ~OPENAI_API_KEY
        => /\ ~ai_quota_exceeded
           /\ LastIsAi => (last.ret = "Uncertain" /\ last.ext = <<>>)
           /\ last.op = "check_api_status" => (last.ret = FALSE /\ last.ext = <<>>)

\* a judge call after a status probe, both without a credential
C16_Witness ==
    /\ ~OPENAI_API_KEY
    /\ LastIsAi
    /\ ai_error_message = Msg("no_key", <<>>)
    /\ last.ret = "Uncertain"
    /\ last.ext = <<>>

\* the columns with a dedicated verifier
Dedicated ==
    {ColEmail, ColFirstName, ColLastName, ColCompany, ColCompanyName, ColDomain,
     ColAddress, ColCity, ColState, ColCountry, ColPostal, ColByd, ColIndustry}

\* C17: with use_ai = false no AI call is issued for any requested field, and a
\* field that would be handed to the AI judge (city, state, country or industry
\* not mentioned in the evidence; any non-empty field outside the dedicated
\* categories) gets 'Uncertain'.
C17_AiDisabled ==
    (LastIsField /\ ~batch.use_ai)
        => /\ ~last.ai.called
           /\ "openai" \notin ExtCalls(last.ext)
           /\ (/\ last.col \in {ColCity, ColState, ColCountry, ColByd, ColIndustry}
               /\ last.info.got
               /\ ~Contains(LowerStr(last.info.text), LowerStr(last.value.s)))
                  => last.ret = "Uncertain"
           /\ (/\ last.present
               /\ last.col \notin Dedicated
               /\ ~IsNa(last.value) /\ last.value # Str(<<>>))
                  => (last.ret = "Uncertain" /\ last.ext = <<>>)

\* a city that the gathered evidence does not mention, AI disabled
C17_Witness ==
    /\ LastIsField
    /\ ~batch.use_ai
    /\ last.col = ColCity
    /\ last.value = Str(<<"O","s","l","o">>)
    /\ last.info.got
    /\ last.info.text = SearchShort
    /\ last.ret = "Uncertain"
    /\ ~last.ai.called

\* C18: for a syntactically valid address whose domain was found resolvable and is
\* not disposable, validate_email does not raise and returns 'Valid' when no
\* deliverability credential is configured (no API request is made); with a
\* credential it returns 'Valid' for DELIVERABLE, 'Invalid' for UNDELIVERABLE and
\* 'Uncertain' for any other value, a non-200 response, a missing deliverability
\* field or an exception of the request.
C18_EmailFinalStep ==
    (/\ LastIsEmail
     /\ is_valid_email_syntax(last.email)
     /\ last.has_mx = "yes"
     /\ LowerStr(DomainOf(last.email.s)) \notin disposable_domains)
        => /\ last.raised = "none"
           /\ last.api = "none"
                  => (last.ret = "Valid" /\ "abstract_api" \notin ExtCalls(last.ext))
           /\ last.api # "none"
                  => /\ "abstract_api" \in ExtCalls(last.ext)
                     /\ last.ret = CASE last.api = "DELIVERABLE" -> "Valid"
                                      [] last.api = "UNDELIVERABLE" -> "Invalid"
                                      [] OTHER -> "Uncertain"

\* a deliverability answer that is neither DELIVERABLE nor UNDELIVERABLE
C18_Witness ==
    /\ LastIsEmail
    /\ last.email = Str(EmailPlain)
    /\ last.has_mx = "yes"
    /\ last.api = "RISKY"
    /\ last.ret = "Uncertain"

\* the DNS lookups of the last call
Lookups(ext) == {i \in DOMAIN ext : ext[i].call \in {"dns_mx", "dns_a"}}

\* C19: for a syntactically valid address, an A lookup is made only directly
\* after a failed MX lookup; when the domain did not resolve validate_email
\* returns 'Uncertain' without the disposable-domain verdict and without a
\* deliverability request; when either lookup answers the domain counts as
\* resolvable.
C19_DnsStep ==
    (LastIsEmail /\ is_valid_email_syntax(last.email))
        => /\ \A i \in DOMAIN last.ext :
                  last.ext[i].call = "dns_a"
                      => (i > 1 /\ last.ext[i - 1].call = "dns_mx" /\ ~last.ext[i - 1].ok)
           /\ last.has_mx = "no"
                  => (last.ret = "Uncertain" /\ "abstract_api" \notin ExtCalls(last.ext))
           /\ Lookups(last.ext) # {}
                  => (last.has_mx = "yes" <=> \E i \in Lookups(last.ext) : last.ext[i].ok)

\* a disposable domain that does not resolve: 'Uncertain', not 'Invalid'
C19_Witness ==
    /\ LastIsEmail
    /\ last.email = Str(EmailDisp)
    /\ last.ext = <<Ext("dns_mx", DomainOf(EmailDisp), FALSE),
                    Ext("dns_a", DomainOf(EmailDisp), FALSE)>>
    /\ last.has_mx = "no"
    /\ last.ret = "Uncertain"

\* C20: when the record has non-missing values in both 'Company Name' and
\* 'Company', the name, domain, address and industry verifiers use the
\* 'Company Name' value; 'Company' is used only when 'Company Name' is absent
\* or missing.
C20_CompanyNamePreferred ==
    (/\ LastIsField
     /\ last.col \in Dedicated \ {ColEmail, ColCompany, ColCompanyName}
     /\ last.present /\ ~IsNa(last.value) /\ last.value # Str(<<>>)
     /\ Has(last.row, ColCompanyName)
     /\ ~IsNa(Get(last.row, ColCompanyName)))
        => last.company = Get(last.row, ColCompanyName)

\* C21: when the company domain is absent (None) or missing (NaN), the evidence
\* gatherer attempts no site scrape, runs the search, returns and caches its text
\* without raising, and the company verdict follows the evidence-length rule.
C21_MissingDomain ==
    (/\ last.op = "verify_company_exists"
     /\ last.company.t = "str" /\ last.company.s # <<>>
     /\ IsNa(last.domain))
        => /\ last.info.got
           /\ ExtCalls(last.ext) \cap {"fetch_url", "site_get"} = {}
           /\ WebCacheKey(last.company, last.domain) \in DOMAIN web_cache
           /\ last.ret = IF Len(last.info.text) > 100 THEN "Valid"
                         ELSE IF Len(last.info.text) > 0 THEN "Uncertain"
                         ELSE "Invalid"

\* the number of whitespace-separated tokens of the lower-cased value, and the
\* number of them that occur in the lower-cased evidence
TokenCount(value) == Cardinality(TokenStarts(value.s))

MatchCount(value, text) ==
    Cardinality({i \in TokenStarts(value.s) :
                    Contains(LowerStr(text), TokenAt(LowerStr(value.s), i))})

\* C22: with a usable company, a Company Address value of n tokens of which m
\* occur in the evidence gets 'Valid' iff m > n/2, 'Uncertain' iff 0 < m <= n/2
\* (exactly half is 'Uncertain'), and 'Invalid' iff m = 0.
C22_AddressThresholds ==
    (LastIsField /\ last.col = ColAddress /\ last.info.got)
        => LET n == TokenCount(last.value)
               m == MatchCount(last.value, last.info.text)
           IN  /\ last.ret = "Valid" <=> 2 * m > n
               /\ last.ret = "Uncertain" <=> (0 < m /\ 2 * m <= n)
               /\ last.ret = "Invalid" <=> m = 0

\* one of two tokens found in the evidence
C22_Witness ==
    /\ LastIsField
    /\ last.col = ColAddress
    /\ last.value = Str(<<"9"," ","M","a","i","n">>)
    /\ last.info.got
    /\ last.info.text = SearchShort
    /\ MatchCount(last.value, last.info.text) = 1
    /\ last.ret = "Uncertain"

\* C23: with a usable company, a city, state, country or industry value that
\* occurs case-insensitively in the evidence gets 'Valid' without a call of the AI
\* judge; otherwise the AI judge is called exactly when use_ai is true, and its
\* result is the verdict; the postal-code and street-address fields are never
\* handed to the AI judge.
C23_EscalationOrder ==
    (LastIsField /\ last.info.got)
        => /\ last.col \in {ColCity, ColState, ColCountry, ColByd, ColIndustry}
                  => IF Contains(LowerStr(last.info.text), LowerStr(last.value.s))
                     THEN last.ret = "Valid" /\ ~last.ai.called
                     ELSE /\ last.ai.called <=> batch.use_ai
                          /\ last.ai.called => last.ret = last.ai.ret
                          /\ ~last.ai.called => last.ret = "Uncertain"
           /\ last.col \in {ColPostal, ColAddress}
                  => (~last.ai.called /\ "openai" \notin ExtCalls(last.ext))

\* a city found in the evidence while the AI judge is enabled
C23_Witness ==
    /\ LastIsField
    /\ batch.use_ai
    /\ last.col = ColCity
    /\ last.value = Str(<<"R","o","m","e">>)
    /\ last.info.got
    /\ last.info.text = SearchShort
    /\ last.ret = "Valid"
    /\ ~last.ai.called

\* every entry of cache c is an entry of cache d
Kept(c, d) == \A k \in DOMAIN c : k \in DOMAIN d /\ d[k] = c[k]

\* C24: an entry once written to the email verdict cache, the DNS cache, the web
\* evidence cache or the AI response cache is never overwritten with a different
\* value and never removed.
C24_CacheImmutability ==
    [][/\ Kept(validation_cache, validation_cache')
       /\ Kept(dns_cache, dns_cache')
       /\ Kept(web_cache, web_cache')
       /\ Kept(ai_cache, ai_cache')]_vars

\* a second record verified while the web and the AI caches hold entries,
\* answered from both
C24_Witness ==
    /\ ncalls = 2
    /\ LastIsField
    /\ DOMAIN web_cache # {}
    /\ DOMAIN ai_cache # {}
    /\ last.info.got
    /\ last.ai.called
    /\ last.ext = <<>>

\* C25: over validate_email calls on syntactically valid addresses that share a
\* domain string, DNS resolution of the domain is performed at most once (one MX
\* lookup and at most one A lookup); a later call makes no lookup, and a domain
\* that failed to resolve stays unresolvable.
C25_DnsCacheByDomain ==
    (LastIsEmail /\ is_valid_email_syntax(last.email))
        => /\ Cardinality({i \in DOMAIN last.ext : last.ext[i].call = "dns_mx"}) <= 1
           /\ Cardinality({i \in DOMAIN last.ext : last.ext[i].call = "dns_a"}) <= 1
           /\ last.dns_prev.seen
                  => /\ Lookups(last.ext) = {}
                     /\ (~last.dns_prev.ret /\ ~last.prev.seen)
                            => (last.has_mx = "no" /\ last.ret = "Uncertain")
                     /\ (last.dns_prev.ret /\ ~last.prev.seen) => last.has_mx = "yes"

\* a second address at a domain that failed to resolve for the first
C25_Witness ==
    /\ LastIsEmail
    /\ last.email = Str(EmailSameDom)
    /\ ~last.prev.seen
    /\ last.dns_prev.seen
    /\ ~last.dns_prev.ret
    /\ last.ext = <<>>
    /\ last.ret = "Uncertain"

\* C26: with a credential and the breaker untripped, a verify_contact_with_ai
\* call that repeats an earlier successful call's field name, field value, deep
\* flag and record context (derived '<field>_status' entries not counting)
\* returns the stored status with no external call, and a call that differs from
\* every earlier call in one of the four components is not served from the cache.
C26_AiCacheHit ==
    (LastIsAi /\ OPENAI_API_KEY /\ ~last.tripped)
        => /\ last.like # {} => (last.ext = <<>> /\ last.ret \in last.like)
           /\ last.like = {} => ~last.cached

C28_GatherComposition ==
    LastIsGather =>
        IF ~Truthy(last.company)
        THEN /\ last.raised = "none"
             /\ last.ret = <<>>
             /\ last.ext = <<>>
             /\ (Format(last.company) \o <<"_">> \o Format(last.domain))
                    \notin DOMAIN web_cache
        ELSE ~last.cached =>
             /\ last.raised = "none"
             /\ "fetch_url" \in ExtCalls(last.ext)
                    => /\ Truthy(last.domain)
                       /\ LowerStr(last.company.s) # LowerStr(last.domain.s)
             /\ last.company.t = "str"
                    => /\ last.ext # <<>>
                       /\ last.ext[Len(last.ext)].call \in {"serpapi", "duckduckgo"}
             /\ \E site \in {<<>>, SiteText}, search \in {<<>>} \cup SearchTexts :
                    /\ last.ret = (IF site = <<>> THEN <<>> ELSE site \o <<"\n", "\n">>)
                                      \o search
                    /\ site # <<>> => "fetch_url" \in ExtCalls(last.ext)
                    /\ search # <<>> => last.ext[Len(last.ext)].ok

\* C29: a Company Domain value (a non-empty string) that contains no dot or
\* contains whitespace gets 'Invalid', and no HTTP reachability probe is issued
\* for it.
C29_MalformedDomain ==
    (/\ LastIsDomain
     /\ last.domain.t = "str"
     /\ last.domain.s # <<>>
     /\ \/ "." \notin Range(last.domain.s)
        \/ Range(last.domain.s) \cap {" ", "\t", "\n"} # {})
        => (last.ret = "Invalid" /\ last.ext = <<>>)

\* C30: web cache keys are injective: a get_company_info_from_web call is
\* answered from the cache only if the same (company, domain) pair was gathered
\* before, and then with the text gathered for that pair.
C30_WebKeysInjective ==
    (LastIsGather /\ Truthy(last.company) /\ last.cached)
        => (last.prev.seen /\ last.ret = last.prev.ret)

\* C31: when verify_data returns for a record whose First Name and Last Name
\* were both requested and are both non-empty, the two fields carry the same
\* verdict, whatever the external sources answered at each lookup.
C31_NamesAgree ==
    (/\ LastIsReturn
     /\ {ColFirstName, ColLastName} \subseteq Range(last.cols)
     /\ \A c \in {ColFirstName, ColLastName} :
            /\ Has(last.row, c)
            /\ ~IsNa(Get(last.row, c))
            /\ Get(last.row, c) # Str(<<>>))
        => Get(last.ret, StatusName(ColFirstName)) = Get(last.ret, StatusName(ColLastName))

\* both names of a record were found in the evidence gathered for its company
C31_Witness ==
    /\ LastIsReturn
    /\ last.row = RecFull
    /\ last.cols = <<ColFirstName, ColLastName>>
    /\ Get(last.ret, StatusName(ColFirstName)) = Str(<<"V","a","l","i","d">>)
    /\ Get(last.ret, StatusName(ColLastName)) = Str(<<"V","a","l","i","d">>)

\* C32: in every state where the breaker is tripped, ai_error_message is the
\* quota-exceeded or the invalid-key message, and no step taken while the
\* breaker is tripped changes ai_error_message.
C32_BreakerMessage ==
    /\ [](ai_quota_exceeded => ai_error_message.kind \in {"quota", "invalid_key"})
    /\ [][ai_quota_exceeded => ai_error_message' = ai_error_message]_vars

\* calls made after the trip left the breaker message in place
C32_Witness ==
    /\ last.op = "check_api_status"
    /\ last.tripped
    /\ hist.ai # EmptyMap
    /\ ai_error_message = [kind |-> "invalid_key", detail |-> <<>>]

\* C33: a verify_contact_with_ai call that fails with a transient error leaves
\* ai_cache and the breaker as they were, and the call that follows it with the
\* same field, value, context and mode issues a new external call.
C33_TransientNotRemembered ==
    [][/\ (last'.op = "verify_contact_with_ai" /\ last'.err = "transient")
            => (ai_cache' = ai_cache /\ ai_quota_exceeded' = ai_quota_exceeded)
       /\ (/\ last.op = "verify_contact_with_ai"
           /\ last.err = "transient"
           /\ last'.op = "verify_contact_with_ai"
           /\ last'.args = last.args)
            => last'.ext # <<>>]_vars

\* the same request, repeated after a timeout, was sent again and answered
C33_Witness ==
    /\ LastIsAi
    /\ last.retry
    /\ last.ext # <<>>
    /\ last.err = "none"
    /\ last.ret = "Valid"
    /\ ~ai_quota_exceeded

\* C34: whenever the check_api_status() call of the current script run returned
\* False, every verify_data call of that run's batch loop is made with
\* use_ai = False and use_deep_search = False.
C34_GateOnStatus ==
    (run.active /\ batch.started /\ batch.requested /\ ~batch.api_status)
        => (~run.use_ai /\ ~run.deep)

=============================================================================
